---- MODULE Spec2Model ----
(***************************************************************************)
(* rcv-cli: conversion of one image, or of every image of a directory, to  *)
(* WebP (src/src/main.rs).                                                 *)
(*                                                                         *)
(* A path is a sequence of segments, a segment a sequence of one-character *)
(* strings ("a.j" is <<"a", ".", "j">>). The segment RootSeg stands for    *)
(* the root component of an absolute path.                                 *)
(***************************************************************************)
EXTENDS Integers, Sequences, FiniteSets, TLC

\* ------------------------------------------------------------------ bounds
\* Longest segment of the paths the name derivation is applied to.
MaxSegLen == 5
\* Invocations of the program in one behaviour (the file system persists).
MaxRuns == 2
\* u64 is modelled by a word of WordBits bits; every size of the model is
\* below 2^WordBits, as every file size is below 2^64.
WordBits == 12

\* ------------------------------------------------------------ path algebra
RootSeg == <<"/">>
ParentSeg == <<".", ".">>
CurSeg == <<".">>
ExtWebp == <<"w", "e", "b", "p">>
DefaultName == <<"d", "e", "f", "a", "u", "l", "t">>

\* Path::components: "." segments are dropped, except a leading one.
RECURSIVE Components(_)
Components(p) ==
    IF p = <<>> THEN <<>>
    ELSE LET front == Components(SubSeq(p, 1, Len(p) - 1))
             last == p[Len(p)]
         IN IF last = CurSeg /\ Len(p) > 1 THEN front ELSE Append(front, last)

\* Path::file_name: the last component when it is a normal one.
HasFileName(p) ==
    LET c == Components(p)
    IN /\ c # <<>>
       /\ c[Len(c)] \notin {RootSeg, ParentSeg, CurSeg}

file_name(p) == LET c == Components(p) IN c[Len(c)]

\* The index of the last "." of a segment, 0 when it has none.
LastDot(s) ==
    LET dots == {i \in 1..Len(s) : s[i] = "."}
    IN IF dots = {} THEN 0 ELSE CHOOSE i \in dots : \A j \in dots : j <= i

\* A file stem that ends at the first "." instead of the last.
file_stem_wrong(s) ==
    LET dots == {i \in 1..Len(s) : s[i] = "."}
        first == IF dots = {} THEN 0 ELSE CHOOSE i \in dots : \A j \in dots : i <= j
    IN IF first <= 1 THEN s ELSE SubSeq(s, 1, first - 1)

\* Path::file_stem of a file name (rsplit_file_at_dot): the name up to its
\* last ".", the whole name when it has no "." or only a leading one.
file_stem(s) ==
    IF s = ParentSeg THEN s
    ELSE IF LastDot(s) <= 1 THEN s
    ELSE SubSeq(s, 1, LastDot(s) - 1)

\* PathBuf::join of a single normal component.
join(dir, name) == Append(dir, name)

\* Path::with_extension: the buffer is truncated right after the file stem
\* (which drops trailing "." segments) and "." and the extension are pushed.
\* A path with no file name is left as it is.
with_extension(p, ext) ==
    IF ~HasFileName(p) THEN p
    ELSE LET k == CHOOSE i \in 1..Len(p) :
                      /\ ~(p[i] = CurSeg /\ i > 1)
                      /\ \A j \in (i + 1)..Len(p) : p[j] = CurSeg
         IN Append(SubSeq(p, 1, k - 1), file_stem(p[k]) \o <<".">> \o ext)

\* process_image, lines 65-68: the file name, or "default".
NameOrDefault(input) == IF HasFileName(input) THEN file_name(input) ELSE DefaultName

\* process_image, line 76.
OutputPathOf(output_path, input) ==
    with_extension(join(output_path, NameOrDefault(input)), ExtWebp)

\* ------------------------------------------------------------- file system
DirIn == <<"i">>
DirOut == <<"o">>
DirMissing == <<"m">>
Dirs == {DirIn, DirOut}

NameA1 == <<"a", ".", "j">>
NameA2 == <<"a", ".", "p">>
InNames == {NameA1, NameA2}
WebpA == <<"a", ".">> \o ExtWebp
AllNames == InNames \cup {WebpA}
\* A subdirectory of the scanned directory, and the file it may hold.
SubDir == <<DirIn, <<"s">>>>
SubFile == <<DirIn, <<"s">>, NameA1>>
FsPaths == {<<d, n>> : d \in Dirs, n \in AllNames} \cup {SubDir, SubFile}

\* What fs::metadata reports for a new input file, and what Encoder::encode
\* may produce: shorter or longer than the input.
InputLens == {0, 2048}
EncLens == {1024, 3072}
Modulus == 2 ^ WordBits

NoEntry == [kind |-> "none"]
DirEntry == [kind |-> "dir"]
\* A file: the length fs::metadata reports (0 for an empty file, and for a
\* pipe or a pseudo-file whatever can be read from it), what image::open
\* makes of it ("none": no image; "rgb" and "luma": an image of that pixel
\* layout) and the picture it holds.
FileEntry(len, img, pix) == [kind |-> "file", len |-> len, img |-> img, pix |-> pix]

InitialEntries(n) ==
    {NoEntry, DirEntry, FileEntry(2048, "luma", n)}
        \cup {FileEntry(l, "none", <<>>) : l \in InputLens}
        \cup {FileEntry(l, "rgb", n) : l \in InputLens}

Lookup(fsys, p) ==
    IF p \in DOMAIN fsys THEN fsys[p]
    ELSE IF p \in {<<d>> : d \in Dirs} \cup {<<RootSeg>>} THEN DirEntry
    ELSE NoEntry

\* Path::is_file.
is_file(fsys, p) == Lookup(fsys, p).kind = "file"

\* image::open(path).is_ok().
DecodeOk(fsys, p) == is_file(fsys, p) /\ Lookup(fsys, p).img # "none"

\* A probe that takes every file for an image.
is_image_file_any(fsys, p) == TRUE

\* is_image_file (lines 106-108).
is_image_file(fsys, p) == DecodeOk(fsys, p)

\* Encoder::from_image accepts the RGB layouts only.
EncoderOk(img) == img = "rgb"

\* ------------------------------------------------------------ process_image
\* What the environment decides during one conversion: the length of the
\* encoder's output and whether fs::write succeeds.
Envs == [encLen : EncLens, writeOk : BOOLEAN]

\* The f64 quotient of line 81, (file_size - new_file_size) / file_size.
Quotient(file_size, new_file_size) ==
    IF file_size # 0 THEN "finite"
    ELSE IF new_file_size = 0 THEN "NaN" ELSE "-inf"

\* percentage_change as u64: the cast saturates, NaN becomes 0.
PercentU64(file_size, new_file_size) ==
    IF file_size = 0 \/ new_file_size > file_size THEN 0
    ELSE ((file_size - new_file_size) * 100) \div file_size

\* A call that ends before it wrote anything.
Ended(fsys, res, err) ==
    [res |-> res, err |-> err, fs |-> fsys, out |-> <<>>, wrote |-> FALSE,
     file_size |-> 0, new_file_size |-> 0, quotient |-> "none",
     underflow |-> FALSE, saved |-> 0, pct |-> 0]

\* A write that keeps what the path already holds.
WriteFileIfAbsent(fsys, p, entry) ==
    IF fsys[p].kind = "none" THEN [fsys EXCEPT ![p] = entry] ELSE fsys

\* fs::write: creates the file or replaces its content.
WriteFile(fsys, p, entry) == [fsys EXCEPT ![p] = entry]

\* process_image (lines 59-89). res is "Ok", "Err" (the Result's error) or
\* "Panic" (an unwrap on an error, or the subtraction of line 84 under
\* overflow checks).
process_image(fsys, input_file, output_path, env, checks) ==
    LET image_path == input_file
        src == Lookup(fsys, image_path)
    IN
    IF src.kind = "none" THEN Ended(fsys, "Panic", "InputUnreadable")
    ELSE IF ~DecodeOk(fsys, image_path) THEN Ended(fsys, "Err", "DecodeFailed")
    ELSE IF ~EncoderOk(src.img) THEN Ended(fsys, "Err", "EncodeFailed")
    ELSE
    LET file_size == src.len
        out == OutputPathOf(output_path, image_path)
    IN
    IF ~env.writeOk \/ Lookup(fsys, out).kind = "dir"
    THEN [Ended(fsys, "Panic", "WriteFailed") EXCEPT !.out = out, !.file_size = file_size]
    ELSE
    LET written == FileEntry(env.encLen, "rgb", src.pix)
        fs2 == WriteFile(fsys, out, written)
        new_file_size == Lookup(fs2, out).len
        underflow == new_file_size > file_size
    IN [res |-> IF underflow /\ checks THEN "Panic" ELSE "Ok",
        err |-> IF underflow /\ checks THEN "Overflow" ELSE "None",
        fs |-> fs2, out |-> out, wrote |-> TRUE,
        file_size |-> file_size, new_file_size |-> new_file_size,
        quotient |-> Quotient(file_size, new_file_size),
        underflow |-> underflow,
        saved |-> IF underflow /\ checks THEN 0
                  ELSE ((file_size - new_file_size) % Modulus) \div 1024,
        pct |-> PercentU64(file_size, new_file_size)]

\* --------------------------------------------------------- get_files_in_dir
\* The entries fs::read_dir yields for a directory.
DirEntries(fsys, dir) ==
    {p \in DOMAIN fsys : SubSeq(p, 1, Len(p) - 1) = dir /\ fsys[p].kind # "none"}

\* The paths get_files_in_dir pushes (lines 96-100).
Discovered(fsys, dir) ==
    {p \in DirEntries(fsys, dir) : is_file(fsys, p) /\ is_image_file(fsys, p)}

\* The sequences that hold each element of a set once: read_dir yields the
\* entries in an order of its own.
Orders(S) ==
    {f \in [1..Cardinality(S) -> S] : \A i, j \in 1..Cardinality(S) : f[i] = f[j] => i = j}

\* -------------------------------------------------------------------- state
VARIABLES
    fs,               \* the file system: FsPaths -> entry
    overflow_checks,  \* the build: does u64 subtraction panic on overflow
    pc,               \* "start", "batch" (inside process_directory's loop), "exit"
    run,              \* the number of the invocation
    args,             \* Args of the invocation
    files,            \* process_directory: the Vec get_files_in_dir returned
    idx,              \* process_directory: the next element of files
    calls,            \* the process_image calls of the invocation, in order
    skips,            \* the files named by a "Skipping..." diagnostic, in order
    exit,             \* how the invocation ended
    nmIn,             \* name derivation alone: the input path
    nmOutDir,         \* name derivation alone: the output directory
    nmResult          \* name derivation alone: the derived path

vars == <<fs, overflow_checks, pc, run, args, files, idx, calls, skips, exit,
          nmIn, nmOutDir, nmResult>>
nmVars == <<nmIn, nmOutDir, nmResult>>

None == [some |-> FALSE]
Some(v) == [some |-> TRUE, val |-> v]

NoArgs == [input_file |-> None, directory |-> None, output_path |-> <<>>]

SingleInputs == {<<DirIn, n>> : n \in AllNames} \cup {<<DirIn>>}
DirectoryArgs == {<<DirIn>>, <<DirMissing>>}
OutputPaths == {<<DirIn>>, <<DirOut>>}
OptionalInputs == {None, Some(<<DirIn, NameA1>>)}

Init ==
    /\ \E f \in [InNames -> UNION {InitialEntries(n) : n \in InNames}],
          sub \in BOOLEAN :
          /\ \A n \in InNames : f[n] \in InitialEntries(n)
          /\ fs = [p \in FsPaths |->
                     IF p = SubDir THEN (IF sub THEN DirEntry ELSE NoEntry)
                     ELSE IF p = SubFile
                     THEN (IF sub THEN FileEntry(2048, "rgb", SubFile) ELSE NoEntry)
                     ELSE IF p[1] = DirIn /\ p[2] \in InNames THEN f[p[2]]
                     ELSE NoEntry]
    /\ overflow_checks \in BOOLEAN
    /\ pc = "start"
    /\ run = 1
    /\ nmIn = <<>>
    /\ nmOutDir = <<>>
    /\ nmResult = <<>>
    /\ args = NoArgs
    /\ files = <<>>
    /\ idx = 1
    /\ calls = <<>>
    /\ skips = <<>>
    /\ exit = "running"

\* The record of one process_image call.
CallOf(file, r, before, env) ==
    [file |-> file, res |-> r.res, err |-> r.err, out |-> r.out, wrote |-> r.wrote,
     before |-> before, env |-> env, underflow |-> r.underflow, file_size |-> r.file_size, new_file_size |-> r.new_file_size,
     quotient |-> r.quotient, saved |-> r.saved, pct |-> r.pct]

Finish(code) ==
    /\ pc' = "exit"
    /\ exit' = code

\* main, lines 32-35: neither --input-file nor --directory.
MainRejected ==
    /\ pc = "start"
    /\ \E out \in OutputPaths :
          args' = [input_file |-> None, directory |-> None, output_path |-> out]
    /\ Finish("Exit0")
    /\ UNCHANGED <<fs, overflow_checks, run, files, idx, calls, skips, nmVars>>

\* main, lines 37-41: fs::create_dir_all fails.
MainCreateDirFails ==
    /\ pc = "start"
    /\ \E i \in OptionalInputs, d \in {None} \cup {Some(x) : x \in DirectoryArgs},
          out \in OutputPaths :
          /\ i.some \/ d.some
          /\ args' = [input_file |-> i, directory |-> d, output_path |-> out]
    /\ Finish("Exit1")
    /\ UNCHANGED <<fs, overflow_checks, run, files, idx, calls, skips, nmVars>>

\* main, lines 49-53: the single file.
MainSingle ==
    /\ pc = "start"
    /\ \E input \in SingleInputs, out \in OutputPaths, env \in Envs :
          LET r == process_image(fs, input, out, env, overflow_checks)
          IN /\ args' = [input_file |-> Some(input), directory |-> None,
                         output_path |-> out]
             /\ fs' = r.fs
             /\ calls' = <<CallOf(input, r, Lookup(fs, r.out), env)>>
             /\ Finish(IF r.res = "Ok" THEN "Ok" ELSE r.res)
    /\ UNCHANGED <<overflow_checks, run, files, idx, skips, nmVars>>

\* main, lines 43-48, and process_directory, line 111: get_files_in_dir
\* fails (fs::read_dir or one of its entries is an error).
MainDirectoryUnreadable ==
    /\ pc = "start"
    /\ \E i \in OptionalInputs, d \in DirectoryArgs, out \in OutputPaths :
          args' = [input_file |-> i, directory |-> Some(d), output_path |-> out]
    /\ Finish("Err")
    /\ UNCHANGED <<fs, overflow_checks, run, files, idx, calls, skips, nmVars>>

\* main, lines 43-48, and process_directory, line 111: get_files_in_dir
\* returns the files.
MainDirectory ==
    /\ pc = "start"
    /\ \E i \in OptionalInputs, d \in DirectoryArgs, out \in OutputPaths :
          /\ Lookup(fs, d).kind = "dir"
          /\ args' = [input_file |-> i, directory |-> Some(d), output_path |-> out]
          /\ files' \in Orders(Discovered(fs, d))
    /\ idx' = 1
    /\ pc' = "batch"
    /\ UNCHANGED <<fs, overflow_checks, run, calls, skips, exit, nmVars>>

\* process_directory, lines 113-120: one turn of the loop.
BatchStep ==
    /\ pc = "batch"
    /\ idx <= Len(files)
    /\ \E env \in Envs :
          LET file == files[idx]
              r == process_image(fs, file, args.output_path, env, overflow_checks)
          IN /\ fs' = r.fs
             /\ calls' = Append(calls, CallOf(file, r, Lookup(fs, r.out), env))
             /\ skips' = IF r.res = "Err" THEN Append(skips, file_name(file)) ELSE skips
             /\ IF r.res = "Panic"
                THEN Finish("Panic") /\ idx' = idx
                ELSE idx' = idx + 1 /\ UNCHANGED <<pc, exit>>
    /\ UNCHANGED <<overflow_checks, run, args, files, nmVars>>

\* process_directory, line 122, and main, line 56.
BatchDone ==
    /\ pc = "batch"
    /\ idx > Len(files)
    /\ Finish("Ok")
    /\ UNCHANGED <<fs, overflow_checks, run, args, files, idx, calls, skips, nmVars>>

\* The program is started again on the file system the last run left.
Restart ==
    /\ pc = "exit"
    /\ run < MaxRuns
    /\ run' = run + 1
    /\ pc' = "start"
    /\ args' = NoArgs
    /\ files' = <<>>
    /\ idx' = 1
    /\ calls' = <<>>
    /\ skips' = <<>>
    /\ exit' = "running"
    /\ UNCHANGED <<fs, overflow_checks, nmVars>>

Next ==
    \/ MainRejected
    \/ MainCreateDirFails
    \/ MainSingle
    \/ MainDirectoryUnreadable
    \/ MainDirectory
    \/ BatchStep
    \/ BatchDone
    \/ Restart

Spec == Init /\ [][Next]_vars

\* ------------------------------------------------- the name derivation alone
\* process_image's derivation of the output path (lines 65-68 and 76),
\* applied to every path of a bounded set.
NameChars == {"a", "J", "."}
Segments == UNION {[1..k -> NameChars] : k \in 1..MaxSegLen}
NamePaths ==
    {<<>>, <<RootSeg>>}
        \cup {<<s>> : s \in Segments}
        \cup {<<d, s>> : d \in {RootSeg, <<"d">>}, s \in Segments}
NameOutDirs == {<<DirOut>>, <<DirOut, <<"x", ".", "y">>>>}

NameInit ==
    /\ nmIn \in NamePaths
    /\ nmOutDir \in NameOutDirs
    /\ nmResult = <<>>
    /\ pc = "name"
    /\ fs = [p \in FsPaths |-> NoEntry]
    /\ overflow_checks = FALSE
    /\ run = 1
    /\ args = NoArgs
    /\ files = <<>>
    /\ idx = 1
    /\ calls = <<>>
    /\ skips = <<>>
    /\ exit = "running"

DeriveName ==
    /\ pc = "name"
    /\ nmResult' = OutputPathOf(nmOutDir, nmIn)
    /\ pc' = "named"
    /\ UNCHANGED <<fs, overflow_checks, run, args, files, idx, calls, skips, exit,
                   nmIn, nmOutDir>>

NameNext == DeriveName

SpecName == NameInit /\ [][NameNext]_vars

\* ------------------------------------------------------------------- claims
Range(q) == {q[i] : i \in 1..Len(q)}

\* A batch invocation that listed its directory has ended.
BatchEnded == pc = "exit" /\ args.directory.some /\ exit \in {"Ok", "Panic"}

\* C1: in batch mode a failure while converting a file does not abort the
\* batch: when the batch has ended every discovered file was attempted
\* exactly once, in order, and every failed one was named by a skip
\* diagnostic.
C1_FailureIsolation ==
    BatchEnded =>
        /\ Len(calls) = Len(files)
        /\ \A i \in 1..Len(calls) :
              /\ calls[i].file = files[i]
              /\ calls[i].res # "Ok" => file_name(files[i]) \in Range(skips)

\* C2: process_directory ends in failure if and only if listing the
\* directory fails: a batch invocation ends with success or with the listing
\* error, and with the listing error no file was processed.
C2_BatchFailsOnlyOnListing ==
    (pc = "exit" /\ args.directory.some /\ exit # "Exit1") =>
        /\ exit \in {"Ok", "Err"}
        /\ exit = "Err" => calls = <<>>

\* C3: process_image reports every step failure as an error value and never
\* terminates abnormally, each failure under its own kind; in single-file
\* mode the error makes main return an error.
C3_ErrorsAreValues ==
    /\ \A i \in 1..Len(calls) :
          /\ calls[i].res \in {"Ok", "Err"}
          /\ calls[i].res = "Err" <=>
                calls[i].err \in {"InputUnreadable", "DecodeFailed",
                                  "EncodeFailed", "WriteFailed"}
    /\ (pc = "exit" /\ ~args.directory.some /\ calls # <<>>) =>
          (exit = "Ok" <=> calls[1].res = "Ok") /\ exit \in {"Ok", "Err"}

\* C4: when the encoded file is larger than the (non-empty) original,
\* process_image still succeeds and the u64 subtraction of line 84 does not
\* underflow.
C4_NoImprovementAssumed ==
    \A i \in 1..Len(calls) :
        (/\ calls[i].wrote
         /\ calls[i].file_size > 0
         /\ calls[i].new_file_size > calls[i].file_size) =>
            calls[i].res = "Ok" /\ ~calls[i].underflow

\* C5: on a listable directory get_files_in_dir returns exactly the
\* immediate entries that are regular files and that image::open decodes,
\* each once; no other file is handed to process_image in the batch.
C5_DiscoveryExact ==
    (args.directory.some /\ pc \in {"batch", "exit"}) =>
        /\ \A i, j \in 1..Len(files) : files[i] = files[j] => i = j
        /\ (pc = "batch" /\ calls = <<>>) =>
              \A p \in FsPaths :
                  p \in Range(files) <=>
                      /\ Len(p) = Len(args.directory.val) + 1
                      /\ SubSeq(p, 1, Len(p) - 1) = args.directory.val
                      /\ fs[p].kind = "file"
                      /\ fs[p].img # "none"
        /\ Len(calls) <= Len(files)
        /\ \A i \in 1..Len(calls) : calls[i].file = files[i]

C5_Witness ==
    /\ pc = "batch"
    /\ calls = <<>>
    /\ files # <<>>
    /\ fs[SubFile].kind = "file"
    /\ \E n \in InNames : fs[<<DirIn, n>>].kind = "file" /\ fs[<<DirIn, n>>].img = "none"

\* C6: the derived output path is output_dir/<stem>.webp, <stem> being the
\* input's file name without its last extension (the whole name when it has
\* none), and output_dir/default.webp for an input path with no file name.
C6_NameDerivation ==
    pc = "named" =>
        LET o == nmResult[Len(nmResult)]
            q == SubSeq(o, 1, Len(o) - 5)
        IN /\ Len(nmResult) = Len(nmOutDir) + 1
           /\ SubSeq(nmResult, 1, Len(nmOutDir)) = nmOutDir
           /\ Len(o) >= 6
           /\ SubSeq(o, Len(o) - 4, Len(o)) = <<".">> \o ExtWebp
           /\ IF HasFileName(nmIn)
              THEN LET n == file_name(nmIn)
                   IN \/ q = n /\ \A i \in 2..Len(n) : n[i] # "."
                      \/ \E k \in 2..Len(n) :
                            /\ n[k] = "."
                            /\ q = SubSeq(n, 1, k - 1)
                            /\ \A i \in (k + 1)..Len(n) : n[i] # "."
              ELSE q = DefaultName

C6_Witness ==
    /\ pc = "named"
    /\ ~HasFileName(nmIn)
    /\ nmIn # <<>>
    /\ nmResult = Append(nmOutDir, DefaultName \o <<".">> \o ExtWebp)

\* C7: a conversion whose output path already holds a file ends as it would
\* with the path vacant, and a conversion that wrote leaves at the path the
\* content it encoded and changes no other path: the last write wins.
C7_LastWriteWins ==
    [][(calls' # calls /\ calls' # <<>>) =>
          LET c == calls'[Len(calls')]
              vacant == process_image([fs EXCEPT ![c.out] = NoEntry], c.file,
                                      args'.output_path, c.env, overflow_checks)
          IN /\ (c.out # <<>> /\ c.before.kind = "file" /\ c.out # c.file) =>
                    (vacant.res = c.res /\ vacant.err = c.err)
             /\ c.wrote =>
                    /\ fs'[c.out] = FileEntry(c.env.encLen, "rgb", fs[c.file].pix)
                    /\ \A p \in FsPaths \ {c.out} : fs'[p] = fs[p]]_vars

C7_Witness ==
    /\ run = 2
    /\ pc = "exit"
    /\ exit = "Ok"
    /\ ~args.directory.some
    /\ calls[1].out # calls[1].file
    /\ calls[1].before.kind = "file"
    /\ calls[1].before.pix = fs[calls[1].out].pix
    /\ calls[1].before.len # fs[calls[1].out].len

\* C8: the quotient of line 81 is never evaluated with an original size of 0.
C8_NoDivisionByZero ==
    \A i \in 1..Len(calls) : calls[i].quotient \in {"none", "finite"}

\* C9: a conversion runs only when exactly one of input_file and directory
\* is set, and with neither set the invocation is rejected before discovery
\* or conversion.
C9_ExactlyOneSelector ==
    /\ calls # <<>> => args.input_file.some # args.directory.some
    /\ (pc # "start" /\ ~args.input_file.some /\ ~args.directory.some) =>
          exit = "Exit0" /\ calls = <<>> /\ files = <<>>

\* C10: the files converted in a batch are the files discovered at its
\* start, each attempted once, and a file written during the run is not
\* converted in that run.
C10_DiscoveredOnce ==
    /\ BatchEnded =>
          /\ {calls[i].file : i \in 1..Len(calls)} = Range(files)
          /\ Len(calls) = Len(files)
    /\ \A i, j \in 1..Len(calls) :
          (i < j /\ calls[i].wrote) => calls[j].file # calls[i].out

====
